---- MODULE Spec2Model ----
(***************************************************************************)
(* Model of observatory.py: the command dispatcher, the target and         *)
(* sequence commands with their altitude gate, the guide calls, the        *)
(* dither/capture loop, the focus pulse and the switch setters.            *)
(*                                                                         *)
(* One action is one externally visible step of a handler: a command sent  *)
(* to the INDI server, a call of the PHD2 API, a resolver query, a prompt, *)
(* a directory creation.  The program is single-threaded, so pc is the     *)
(* position of the only thread.                                            *)
(***************************************************************************)
EXTENDS Integers, Sequences, FiniteSets

VARIABLES
    pc,         \* position of the thread: "idle", a step label, or "crashed"
    op,         \* the command dispatched last and its keyword arguments
    coords,     \* local coords of observatory_target / observatory_sequence
    altitude,   \* local altitude (degrees)
    directory,  \* local directory of observatory_sequence
    i,          \* loop variable of "for i in range(exposure_count)"
    clock,      \* wall clock, in minutes (what strftime('%Y%m%d_%H%MUT') shows)
    dirs,       \* directories existing under the base directories
    motion,     \* last value written to each motion property
    sent,       \* number of requests of each kind issued by the current operation
    last,       \* last value written by the current operation, per property
    log,        \* number of log records of each kind written by the current operation
    answer,     \* what the operator typed at the prompt of the current operation
    guideOK,    \* FALSE once a guide call of the current operation reported a status other than OK
    dirExisted, \* TRUE when makedirs of the current operation found the directory already there
    outcome,    \* how the last operation ended
    opsLeft     \* commands the session may still dispatch

vars == <<pc, op, coords, altitude, directory, i, clock, dirs, motion, sent,
          last, log, answer, guideOK, dirExisted, outcome, opsLeft>>

----------------------------------------------------------------------------
(* Bounds of the model *)

MaxOps == 2        \* commands dispatched in one session
MaxCount == 2      \* largest exposure_count of the small runs
MaxMinute == 1     \* last minute of the wall clock
LongCount == 10000 \* exposure_count of the long run

(* Program constants *)

AltThreshold == 20     \* check_continue_sequence: altitude < 20
PadWidth == 4          \* capture_image: {count:04d}
DegPerHour == 15       \* SkyCoord unit hourangle read back as .deg

----------------------------------------------------------------------------
(* Input domains *)

CommandNames == {"set_light", "telescope_cover", "target", "sequence",
                 "focus", "showimage", "roof"}
Requested == CommandNames \cup {"park"}
TargetNames == {"M42", "M31", "Ghost"}
BaseDirs == {"/images"}
FilterNames == {"R", "G", "X"}
Counts == (-1)..MaxCount
ExposureTimes == {10, 30}
SwitchStates == {"on", "off"}
Altitudes == (AltThreshold - 1)..(AltThreshold + 1)
Statuses == {"OK", "ERROR"}
Responses == {<<"y">>, <<"Y">>, <<"n">>, <<"y", "e", "s">>, <<>>}

(* filters = {'L': 1, 'R': 2, 'G': 3, 'B': 4, 'H': 5, 'O': 6} *)
filters == [L |-> 1, R |-> 2, G |-> 3, B |-> 4, H |-> 5, O |-> 6]

red_light_device == "Red Light"
telescope_cover_device == "Telescope Cover"
roof_device == "Observatory Roof"
focuser_device == "ZWO EAF"

(* What the resolver knows: right ascension in hours, declination in degrees. *)
Catalogue == [M42 |-> [ra |-> 5, dec |-> -5], M31 |-> [ra |-> 0, dec |-> 41]]

None == [ra |-> -1, dec |-> -1]
NoDir == [base |-> "", target |-> "", ts |-> -1]
NoFile == [dir |-> NoDir, filter |-> "", ts |-> -1, index |-> <<>>]
NoOp == [cmd |-> "", target |-> "", base |-> "", filter |-> "", count |-> 0,
         etime |-> 0, state |-> ""]

SentKinds == {"query", "read", "prompt", "slew", "mkdir", "enable", "start",
              "stop", "ns_on", "we_on", "ns_off", "we_off", "fw", "exp",
              "save", "lookup", "switch", "focus_on", "focus_off", "shell"}
LogKinds == {"object_not_found", "target_not_found", "slew_aborted",
             "sequence_aborted", "slewed", "captured", "sequence_complete",
             "set", "focus_complete", "unknown_command"}
ErrorKinds == {"object_not_found", "target_not_found", "unknown_command"}

NoAnswer == [asked |-> FALSE, text |-> <<>>]

NoLast == [switch |-> <<"", "", "">>, slew |-> None, slot |-> 0, exposure |-> -1,
           file |-> NoFile]

----------------------------------------------------------------------------
(* Pure functions *)

(* str.lower on the characters the responses use *)
LowerChar(c) ==
    CASE c = "Y" -> "y"
      [] c = "N" -> "n"
      [] c = "E" -> "e"
      [] c = "S" -> "s"
      [] OTHER -> c

Lower(s) == [k \in DOMAIN s |-> LowerChar(s[k])]

NeedsConfirmationInclusive(alt) == alt <= AltThreshold

(* check_continue_sequence: the branch "if altitude < 20" *)
NeedsConfirmation(alt) == alt < AltThreshold

AcceptsUnlessN(response) == Lower(response) # <<"n">>

(* check_continue_sequence: "response.lower() == 'y'" *)
Accepts(response) == Lower(response) = <<"y">>

get_coordinates_default(name) ==
    IF name \in DOMAIN Catalogue THEN Catalogue[name] ELSE [ra |-> 0, dec |-> 0]

(* get_coordinates: the resolver's answer turned into a SkyCoord, or None *)
get_coordinates(name) ==
    IF name \in DOMAIN Catalogue THEN Catalogue[name] ELSE None

SlewValueSwapped(c) == [ra |-> c.dec, dec |-> c.ra * DegPerHour]

(* slew_to_target: the value sent, {"RA": coords.ra.deg, "DEC": coords.dec.deg} *)
SlewValue(c) == [ra |-> c.ra * DegPerHour, dec |-> c.dec]

(* decimal digits of a natural number, most significant first *)
RECURSIVE Digits(_)
Digits(n) == IF n < 10 THEN <<n>> ELSE Append(Digits(n \div 10), n % 10)

(* format(count, "04d") for count >= 0: padded with zeros to at least 4 digits *)
Fmt04d(n) ==
    LET d == Digits(n)
    IN  IF Len(d) >= PadWidth THEN d
        ELSE [k \in 1..(PadWidth - Len(d)) |-> 0] \o d

(* create_directory: f"{base_directory}/{target_name}_{timestamp}" *)
DirectoryName(base, target, now) == [base |-> base, target |-> target, ts |-> now]

FileNameRestamped(dir, filter, now, count) ==
    [dir |-> [dir EXCEPT !.ts = now], filter |-> filter, ts |-> now,
     index |-> Fmt04d(count)]

(* capture_image: f"{directory}/{filter_name}_{timestamp}_{count:04d}.fits" *)
FileName(dir, filter, now, count) ==
    [dir |-> dir, filter |-> filter, ts |-> now, index |-> Fmt04d(count)]

FrameNumberFromZero(k) == k

(* observatory_sequence: the count passed to capture_image, "i + 1" *)
FrameNumber(k) == k + 1

DitherAlways(k) == TRUE

(* observatory_sequence: "if i != 0: dither()" *)
DitherBefore(k) == k # 0

InRangeInclusive(k, count) == k <= count

(* range(exposure_count) still has an element i *)
InRange(k, count) == k < count

Zero == [k \in SentKinds |-> 0]
NoLog == [k \in LogKinds |-> 0]
Bump(f, k) == [f EXCEPT ![k] = @ + 1]

(* time.sleep: the wall clock may pass a minute boundary during the wait *)
Sleep == \E d \in 0..1 : clock' = IF clock + d > MaxMinute THEN MaxMinute ELSE clock + d

----------------------------------------------------------------------------
Init ==
    /\ pc = "idle"
    /\ op = NoOp
    /\ coords = None
    /\ altitude = 0
    /\ directory = NoDir
    /\ i = 0
    /\ clock = 0
    /\ dirs = {}
    /\ motion = [ns |-> 0, we |-> 0, focus |-> 0]
    /\ sent = Zero
    /\ last = NoLast
    /\ log = NoLog
    /\ answer = NoAnswer
    /\ guideOK = TRUE
    /\ dirExisted = FALSE
    /\ outcome = "none"
    /\ opsLeft = MaxOps

(* The handler returns to the caller of observatory(): locals are gone. *)
Return(result) ==
    /\ pc' = "idle"
    /\ UNCHANGED op
    /\ coords' = None
    /\ altitude' = 0
    /\ directory' = NoDir
    /\ i' = 0
    /\ outcome' = result

----------------------------------------------------------------------------
(* Command dispatcher *)

(* The keyword arguments each command takes; fields it does not take stay empty. *)
Kwargs(command) ==
    CASE command \in {"set_light", "telescope_cover", "roof"} ->
            {[NoOp EXCEPT !.cmd = command, !.state = s] : s \in SwitchStates}
      [] command = "target" ->
            {[NoOp EXCEPT !.cmd = command, !.target = t] : t \in TargetNames}
      [] command = "sequence" ->
            {[NoOp EXCEPT !.cmd = command, !.target = t, !.base = b, !.filter = f,
                          !.count = n, !.etime = e] :
                t \in TargetNames, b \in BaseDirs, f \in FilterNames,
                n \in Counts, e \in ExposureTimes}
      [] OTHER -> {[NoOp EXCEPT !.cmd = command]}

EntryFocusIsViewer(command) ==
    CASE command \in {"set_light", "telescope_cover", "roof"} -> "set_device_property"
      [] command \in {"target", "sequence"} -> "get_coordinates"
      [] command = "focus" -> "show_image"
      [] command = "showimage" -> "focus_on"

(* The first step of the function the commands table maps the name to *)
Entry(command) ==
    CASE command \in {"set_light", "telescope_cover", "roof"} -> "set_device_property"
      [] command \in {"target", "sequence"} -> "get_coordinates"
      [] command = "focus" -> "focus_on"
      [] command = "showimage" -> "show_image"

(* A new call of observatory(): nothing has been issued or logged by it yet. *)
Fresh ==
    /\ sent' = Zero
    /\ last' = NoLast
    /\ log' = NoLog
    /\ answer' = NoAnswer
    /\ guideOK' = TRUE
    /\ dirExisted' = FALSE
    /\ opsLeft' = opsLeft - 1

(* observatory(command, **kwargs), "if command in commands" *)
Dispatch ==
    /\ pc = "idle"
    /\ opsLeft > 0
    /\ \E command \in Requested :
        /\ command \in CommandNames
        /\ \E kw \in Kwargs(command) : op' = kw
        /\ pc' = Entry(command)
    /\ outcome' = "running"
    /\ Fresh
    /\ UNCHANGED <<coords, altitude, directory, i, clock, dirs, motion>>

(* observatory(command, **kwargs), the else branch *)
UnknownCommand ==
    /\ pc = "idle"
    /\ opsLeft > 0
    /\ \E command \in Requested :
        /\ command \notin CommandNames
        /\ op' = [NoOp EXCEPT !.cmd = command]
    /\ sent' = Zero
    /\ last' = NoLast
    /\ log' = Bump(NoLog, "unknown_command")
    /\ answer' = NoAnswer
    /\ guideOK' = TRUE
    /\ dirExisted' = FALSE
    /\ opsLeft' = opsLeft - 1
    /\ outcome' = "unknown_command"
    /\ UNCHANGED <<pc, coords, altitude, directory, i, clock, dirs, motion>>

(* Time passes between two commands. *)
Tick ==
    /\ pc = "idle"
    /\ clock < MaxMinute
    /\ clock' = clock + 1
    /\ UNCHANGED <<pc, op, coords, altitude, directory, i, dirs, motion, sent,
                   last, log, answer, guideOK, dirExisted, outcome, opsLeft>>

----------------------------------------------------------------------------
(* Switches, focus, viewer *)

SwitchOfRoofIsCover(command) ==
    CASE command = "set_light" -> <<red_light_device, "LIGHT_STATE">>
      [] command = "telescope_cover" -> <<telescope_cover_device, "COVER_STATE">>
      [] command = "roof" -> <<telescope_cover_device, "COVER_STATE">>

(* the device and property each switch command writes *)
SwitchOf(command) ==
    CASE command = "set_light" -> <<red_light_device, "LIGHT_STATE">>
      [] command = "telescope_cover" -> <<telescope_cover_device, "COVER_STATE">>
      [] command = "roof" -> <<roof_device, "ROOF_STATE">>

(* observatory_set_light / observatory_telescope_cover / observatory_roof *)
SetDeviceProperty ==
    /\ pc = "set_device_property"
    /\ sent' = Bump(sent, "switch")
    /\ last' = [last EXCEPT !.switch = SwitchOf(op.cmd) \o <<op.state>>]
    /\ log' = Bump(log, "set")
    /\ Return("set")
    /\ UNCHANGED <<clock, dirs, motion, answer, guideOK, dirExisted, opsLeft>>

(* focus(): FOCUS_MOTION_VALUE 1, sleep(2) *)
FocusOn ==
    /\ pc = "focus_on"
    /\ sent' = Bump(sent, "focus_on")
    /\ motion' = [motion EXCEPT !.focus = 1]
    /\ Sleep
    /\ pc' = "focus_off"
    /\ UNCHANGED <<op, coords, altitude, directory, i, dirs, last, log, answer, guideOK,
                   dirExisted, outcome, opsLeft>>

(* focus(): FOCUS_MOTION_VALUE 0, log *)
FocusOff ==
    /\ pc = "focus_off"
    /\ sent' = Bump(sent, "focus_off")
    /\ motion' = [motion EXCEPT !.focus = 0]
    /\ log' = Bump(log, "focus_complete")
    /\ Return("focused")
    /\ UNCHANGED <<clock, dirs, last, answer, guideOK, dirExisted, opsLeft>>

(* show_image(): os.system("ds9 ... &") *)
ShowImage ==
    /\ pc = "show_image"
    /\ sent' = Bump(sent, "shell")
    /\ Return("shown")
    /\ UNCHANGED <<clock, dirs, motion, last, log, answer, guideOK, dirExisted, opsLeft>>

----------------------------------------------------------------------------
(* Resolver and altitude gate, shared by target and sequence *)

(* get_coordinates returns coords; "if coords" is taken *)
Resolve ==
    /\ pc = "get_coordinates"
    /\ get_coordinates(op.target) # None
    /\ sent' = Bump(sent, "query")
    /\ coords' = get_coordinates(op.target)
    /\ pc' = "check_altitude"
    /\ UNCHANGED <<op, altitude, directory, i, clock, dirs, motion, last, log,
                   answer, guideOK, dirExisted, outcome, opsLeft>>

(* get_coordinates logs and returns None; the handler logs and returns *)
NotFound ==
    /\ pc = "get_coordinates"
    /\ get_coordinates(op.target) = None
    /\ sent' = Bump(sent, "query")
    /\ log' = Bump(Bump(log, "object_not_found"), "target_not_found")
    /\ Return("target_not_found")
    /\ UNCHANGED <<clock, dirs, motion, last, answer, guideOK, dirExisted, opsLeft>>

(* check_altitude: reads GEOGRAPHIC_COORD of the mount, transforms the coords *)
CheckAltitude ==
    /\ pc = "check_altitude"
    /\ sent' = Bump(sent, "read")
    /\ \E a \in Altitudes : altitude' = a
    /\ pc' = "check_continue_sequence"
    /\ UNCHANGED <<op, coords, directory, i, clock, dirs, motion, last, log,
                   answer, guideOK, dirExisted, outcome, opsLeft>>

(* What the handler does once check_continue_sequence returned True *)
AfterGate(command) ==
    IF command = "target" THEN "slew_to_target" ELSE "create_directory"

(* check_continue_sequence: altitude >= 20, "return True" *)
PassGate ==
    /\ pc = "check_continue_sequence"
    /\ ~NeedsConfirmation(altitude)
    /\ pc' = AfterGate(op.cmd)
    /\ UNCHANGED <<op, coords, altitude, directory, i, clock, dirs, motion, sent,
                   last, log, answer, guideOK, dirExisted, outcome, opsLeft>>

(* check_continue_sequence: input(...) answered with y or Y *)
ConfirmGate ==
    /\ pc = "check_continue_sequence"
    /\ NeedsConfirmation(altitude)
    /\ \E response \in Responses :
        /\ Accepts(response)
        /\ answer' = [asked |-> TRUE, text |-> response]
    /\ sent' = Bump(sent, "prompt")
    /\ pc' = AfterGate(op.cmd)
    /\ UNCHANGED <<op, coords, altitude, directory, i, clock, dirs, motion, last,
                   log, guideOK, dirExisted, outcome, opsLeft>>

(* check_continue_sequence: input(...) answered otherwise; the handler logs the abort *)
DeclineGate ==
    /\ pc = "check_continue_sequence"
    /\ NeedsConfirmation(altitude)
    /\ \E response \in Responses :
        /\ ~Accepts(response)
        /\ answer' = [asked |-> TRUE, text |-> response]
    /\ sent' = Bump(sent, "prompt")
    /\ log' = Bump(log, IF op.cmd = "target" THEN "slew_aborted" ELSE "sequence_aborted")
    /\ Return("low_altitude")
    /\ UNCHANGED <<clock, dirs, motion, last, guideOK, dirExisted, opsLeft>>

(* slew_to_target: EQUATORIAL_EOD_COORD, sleep(10) *)
SlewToTarget ==
    /\ pc = "slew_to_target"
    /\ sent' = Bump(sent, "slew")
    /\ last' = [last EXCEPT !.slew = SlewValue(coords)]
    /\ Sleep
    /\ pc' = "slew_settled"
    /\ UNCHANGED <<op, coords, altitude, directory, i, dirs, motion, log, answer,
                   guideOK, dirExisted, outcome, opsLeft>>

(* slew_to_target: the log after the settle delay; observatory_target returns *)
LogSlewed ==
    /\ pc = "slew_settled"
    /\ log' = Bump(log, "slewed")
    /\ Return("slewed")
    /\ UNCHANGED <<clock, dirs, motion, sent, last, answer, guideOK, dirExisted,
                   opsLeft>>

----------------------------------------------------------------------------
(* observatory_sequence after the gate *)

SequenceFlowStartFirst(at) ==
    CASE at = "create_directory" -> "start_guiding"
      [] at = "start_guiding" -> "enable_multi_star_guiding"
      [] at = "enable_multi_star_guiding" -> "for"

(* observatory_sequence: the statement that follows each statement before the loop *)
SequenceFlow(at) ==
    CASE at = "create_directory" -> "enable_multi_star_guiding"
      [] at = "enable_multi_star_guiding" -> "start_guiding"
      [] at = "start_guiding" -> "for"

(* create_directory: os.makedirs(directory_name, exist_ok=True) *)
CreateDirectory ==
    /\ pc = "create_directory"
    /\ LET d == DirectoryName(op.base, op.target, clock)
       IN  /\ directory' = d
           /\ dirExisted' = (d \in dirs)
           /\ dirs' = dirs \cup {d}
    /\ sent' = Bump(sent, "mkdir")
    /\ pc' = SequenceFlow(pc)
    /\ UNCHANGED <<op, coords, altitude, i, clock, motion, last, log, answer, guideOK,
                   outcome, opsLeft>>

(* observatory_sequence calls the guide functions as statements: whatever they
   return, the next statement runs. *)
ProceedAfterGuide(ok) == TRUE

(* enable_multi_star_guiding(): GET /set_dec_guide_mode, status == 'OK' *)
EnableMultiStarGuiding ==
    /\ pc = "enable_multi_star_guiding"
    /\ sent' = Bump(sent, "enable")
    /\ \E status \in Statuses :
        /\ guideOK' = (guideOK /\ status = "OK")
        /\ IF ProceedAfterGuide(status = "OK")
           THEN /\ pc' = SequenceFlow(pc)
                /\ UNCHANGED <<op, coords, altitude, directory, i, outcome>>
           ELSE Return("guide_failed")
    /\ UNCHANGED <<clock, dirs, motion, last, log, answer, dirExisted, opsLeft>>

(* start_guiding(): GET /guide, status == 'OK' *)
StartGuiding ==
    /\ pc = "start_guiding"
    /\ sent' = Bump(sent, "start")
    /\ \E status \in Statuses :
        /\ guideOK' = (guideOK /\ status = "OK")
        /\ IF ProceedAfterGuide(status = "OK")
           THEN /\ pc' = SequenceFlow(pc)
                /\ UNCHANGED <<op, coords, altitude, directory, i, outcome>>
           ELSE Return("guide_failed")
    /\ UNCHANGED <<clock, dirs, motion, last, log, answer, dirExisted, opsLeft>>

(* "for i in range(exposure_count)": one more exposure, with or without dither *)
NextExposure ==
    /\ pc = "for"
    /\ InRange(i, op.count)
    /\ pc' = IF DitherBefore(i) THEN "dither_ns_on" ELSE "capture_image"
    /\ UNCHANGED <<op, coords, altitude, directory, i, clock, dirs, motion, sent,
                   last, log, answer, guideOK, dirExisted, outcome, opsLeft>>

(* the loop is exhausted *)
LoopDone ==
    /\ pc = "for"
    /\ ~InRange(i, op.count)
    /\ pc' = "stop_guiding"
    /\ UNCHANGED <<op, coords, altitude, directory, i, clock, dirs, motion, sent,
                   last, log, answer, guideOK, dirExisted, outcome, opsLeft>>

(* One command of dither(): property `axis` set to `value`, then on to `next` *)
DitherStep(at, kind, axis, value, next) ==
    /\ pc = at
    /\ sent' = Bump(sent, kind)
    /\ motion' = [motion EXCEPT ![axis] = value]
    /\ pc' = next
    /\ UNCHANGED <<op, coords, altitude, directory, i, dirs, last, log, answer, guideOK,
                   dirExisted, outcome, opsLeft>>

(* dither(): TELESCOPE_MOTION_NS 1, sleep(1) *)
DitherNSOn == DitherStep("dither_ns_on", "ns_on", "ns", 1, "dither_we_on") /\ Sleep

(* dither(): TELESCOPE_MOTION_WE 1, sleep(1) *)
DitherWEOn == DitherStep("dither_we_on", "we_on", "we", 1, "dither_ns_off") /\ Sleep

DitherNSOffThenCapture ==
    DitherStep("dither_ns_off", "ns_off", "ns", 0, "capture_image") /\ UNCHANGED clock

(* dither(): TELESCOPE_MOTION_NS 0 *)
DitherNSOff ==
    DitherStep("dither_ns_off", "ns_off", "ns", 0, "dither_we_off") /\ UNCHANGED clock

DitherWEOffStaysOn ==
    DitherStep("dither_we_off", "we_off", "we", 1, "capture_image") /\ UNCHANGED clock

(* dither(): TELESCOPE_MOTION_WE 0 *)
DitherWEOff ==
    DitherStep("dither_we_off", "we_off", "we", 0, "capture_image") /\ UNCHANGED clock

FilterLookupWithDefault(name) ==
    IF name \in DOMAIN filters
    THEN [ok |-> TRUE, position |-> filters[name]]
    ELSE [ok |-> TRUE, position |-> 1]

(* capture_image: "filter_position = filters[filter_name]"; a missing key raises
   KeyError (ok is FALSE and there is no position) *)
FilterLookup(name) ==
    IF name \in DOMAIN filters
    THEN [ok |-> TRUE, position |-> filters[name]]
    ELSE [ok |-> FALSE, position |-> 0]

(* capture_image: filters[filter_name] raises KeyError; nothing catches it *)
FilterLookupFails ==
    /\ pc = "capture_image"
    /\ ~FilterLookup(op.filter).ok
    /\ sent' = Bump(sent, "lookup")
    /\ pc' = "crashed"
    /\ outcome' = "lookup_failure"
    /\ UNCHANGED <<op, coords, altitude, directory, i, clock, dirs, motion, last,
                   log, answer, guideOK, dirExisted, opsLeft>>

(* capture_image: FILTER_SLOT_VALUE filters[filter_name], sleep(2) *)
SetFilterSlot ==
    /\ pc = "capture_image"
    /\ FilterLookup(op.filter).ok
    /\ sent' = Bump(Bump(sent, "lookup"), "fw")
    /\ last' = [last EXCEPT !.slot = FilterLookup(op.filter).position]
    /\ Sleep
    /\ pc' = "expose"
    /\ UNCHANGED <<op, coords, altitude, directory, i, dirs, motion, log, answer, guideOK,
                   dirExisted, outcome, opsLeft>>

(* capture_image: CCD_EXPOSURE_VALUE exposure_time, sleep(exposure_time + 2) *)
Expose ==
    /\ pc = "expose"
    /\ sent' = Bump(sent, "exp")
    /\ last' = [last EXCEPT !.exposure = op.etime]
    /\ Sleep
    /\ pc' = "save"
    /\ UNCHANGED <<op, coords, altitude, directory, i, dirs, motion, log, answer, guideOK,
                   dirExisted, outcome, opsLeft>>

(* capture_image: CCD_SAVE_PATH filename, log; then the loop's next i *)
Save ==
    /\ pc = "save"
    /\ sent' = Bump(sent, "save")
    /\ last' = [last EXCEPT
                  !.file = FileName(directory, op.filter, clock, FrameNumber(i))]
    /\ log' = Bump(log, "captured")
    /\ i' = i + 1
    /\ pc' = "for"
    /\ UNCHANGED <<op, coords, altitude, directory, clock, dirs, motion, answer, guideOK,
                   dirExisted, outcome, opsLeft>>

(* stop_guiding(): GET /stop_capture; then the completion log *)
StopGuiding ==
    /\ pc = "stop_guiding"
    /\ sent' = Bump(sent, "stop")
    /\ \E status \in Statuses : TRUE
    /\ log' = Bump(log, "sequence_complete")
    /\ Return("complete")
    /\ UNCHANGED <<clock, dirs, motion, last, answer, guideOK, dirExisted, opsLeft>>

----------------------------------------------------------------------------
Next ==
    \/ Dispatch
    \/ UnknownCommand
    \/ Tick
    \/ SetDeviceProperty
    \/ FocusOn
    \/ FocusOff
    \/ ShowImage
    \/ Resolve
    \/ NotFound
    \/ CheckAltitude
    \/ PassGate
    \/ ConfirmGate
    \/ DeclineGate
    \/ SlewToTarget
    \/ LogSlewed
    \/ CreateDirectory
    \/ EnableMultiStarGuiding
    \/ StartGuiding
    \/ NextExposure
    \/ LoopDone
    \/ DitherNSOn
    \/ DitherWEOn
    \/ DitherNSOff
    \/ DitherWEOff
    \/ FilterLookupFails
    \/ SetFilterSlot
    \/ Expose
    \/ Save
    \/ StopGuiding

Spec == Init /\ [][Next]_vars

----------------------------------------------------------------------------
(* The long run.  observatory("sequence", target="M42", base_directory="/images",
   filter_name="R", exposure_count=LongCount, exposure_time=10), dispatched at
   minute 0 with the target at 20 degrees and both guide calls answering OK,
   is at the head of its loop with i = k: what it has sent, logged and saved
   by then, for every k and every minute the clock may show there.  The clock
   moves only in the sleeps, 2 in the first capture and 4 in every later
   dither and capture, and the last frame was stamped in the step before.
   One more command follows the run. *)
SleepsBefore(k) == IF k = 0 THEN 0 ELSE 4 * k - 2

LongOp == [NoOp EXCEPT !.cmd = "sequence", !.target = "M42", !.base = "/images",
                       !.filter = "R", !.count = LongCount, !.etime = 10]
LongDir == DirectoryName(LongOp.base, LongOp.target, 0)

AtLoopHead(k, now) ==
    /\ pc = "for"
    /\ op = LongOp
    /\ coords = get_coordinates(LongOp.target)
    /\ altitude = AltThreshold
    /\ directory = LongDir
    /\ i = k
    /\ clock = now
    /\ dirs = {LongDir}
    /\ motion = [ns |-> 0, we |-> 0, focus |-> 0]
    /\ sent = [Zero EXCEPT !["query"] = 1, !["read"] = 1, !["mkdir"] = 1,
                           !["enable"] = 1, !["start"] = 1,
                           !["lookup"] = k, !["fw"] = k, !["exp"] = k, !["save"] = k,
                           !["ns_on"] = IF k > 0 THEN k - 1 ELSE 0,
                           !["we_on"] = IF k > 0 THEN k - 1 ELSE 0,
                           !["ns_off"] = IF k > 0 THEN k - 1 ELSE 0,
                           !["we_off"] = IF k > 0 THEN k - 1 ELSE 0]
    /\ last = IF k = 0 THEN NoLast
              ELSE [NoLast EXCEPT
                      !.slot = FilterLookup(LongOp.filter).position,
                      !.exposure = LongOp.etime,
                      !.file = FileName(LongDir, LongOp.filter, now, FrameNumber(k - 1))]
    /\ log = [NoLog EXCEPT !["captured"] = k]
    /\ answer = NoAnswer
    /\ guideOK = TRUE
    /\ dirExisted = FALSE
    /\ outcome = "running"
    /\ opsLeft = 1

InitLong ==
    \E k \in 0..(LongCount - 1), now \in 0..MaxMinute :
        /\ now <= SleepsBefore(k)
        /\ AtLoopHead(k, now)

SpecLong == InitLong /\ [][Next]_vars

----------------------------------------------------------------------------
(* Properties *)

IsGated == op.cmd \in {"target", "sequence"}
IsSequence == op.cmd = "sequence"
Ended == pc \in {"idle", "crashed"}
Dithers == sent.ns_on + sent.we_on + sent.ns_off + sent.we_off
Captures == sent.fw + sent.exp + sent.save
GuideCalls == sent.enable + sent.start + sent.stop
(* everything a handler may issue once the gate has let it through *)
AfterGateRequests == sent.slew + sent.mkdir + GuideCalls + Dithers + Captures + sent.lookup
BeforeGate == {"idle", "get_coordinates", "check_altitude", "check_continue_sequence"}
ErrorsLogged == log.object_not_found + log.target_not_found + log.unknown_command

(* the step that leaves check_continue_sequence: asked once below 20 degrees,
   not at all from 20 degrees on, and nothing issued yet *)
C1_LeavesGate ==
    (pc = "check_continue_sequence" /\ pc' # pc) =>
        /\ sent'.prompt = (IF altitude < 20 THEN 1 ELSE 0)
        /\ AfterGateRequests' = 0

(* past the gate the handler runs with that prompt count *)
C1_PastGate ==
    (IsGated /\ pc \notin BeforeGate) =>
        sent.prompt = (IF altitude < 20 THEN 1 ELSE 0)

(* C1: in target and in sequence the operator is asked exactly when the altitude
   is below 20 degrees: the step that leaves the gate has prompted once if the
   altitude is < 20 and not at all if it is >= 20 (20 included), and at that
   point no slew, directory creation, guide call or capture has been issued;
   every later step of the handler runs with that prompt count. *)
C1_ConfirmIffBelow20 == []C1_PastGate /\ [][C1_LeavesGate]_vars

C1_Witness ==
    /\ IsSequence
    /\ altitude = 19
    /\ sent.prompt = 1
    /\ sent.mkdir = 1

(* C2: when the operator was asked (altitude below 20) and typed anything but
   y / Y, the operation has ended as a low-altitude abort with the abort logged
   and without a slew, a directory, a guide call, a dither, a filter-wheel,
   exposure or save command. *)
C2_DeclineStopsEverything ==
    (IsGated /\ answer.asked /\ answer.text \notin {<<"y">>, <<"Y">>}) =>
        /\ pc = "idle"
        /\ outcome = "low_altitude"
        /\ AfterGateRequests = 0
        /\ log.slew_aborted + log.sequence_aborted = 1
        /\ log.slewed = 0 /\ log.sequence_complete = 0

C2_Witness ==
    /\ IsSequence
    /\ answer = [asked |-> TRUE, text |-> <<"y", "e", "s">>]
    /\ outcome = "low_altitude"
    /\ sent.prompt = 1

(* C3 as stated: every sequence run with exposure_count N >= 1 that passed the
   gate and has ended called capture N times and dither N-1 times. *)
C3_CountsForEveryRun ==
    (IsSequence /\ Ended /\ sent.mkdir = 1 /\ op.count >= 1) =>
        /\ sent.lookup = op.count
        /\ sent.ns_on = op.count - 1

(* C3 amended: for N >= 1 and a filter of the filter table, a run that passed
   the gate and has ended captured N times and dithered N-1 times; in every
   run a dither starts only after a capture has been saved and the next
   capture only after that dither's last command, so no dither comes before
   the first capture and each lies between two consecutive captures. *)
C3_CountsForKnownFilter ==
    /\ (IsSequence /\ Ended /\ sent.mkdir = 1 /\ op.count >= 1
            /\ op.filter \in {"L", "R", "G", "B", "H", "O"}) =>
          /\ sent.lookup = op.count
          /\ sent.fw = op.count /\ sent.exp = op.count /\ sent.save = op.count
          /\ sent.ns_on = op.count - 1 /\ sent.we_off = op.count - 1
    /\ IsSequence =>
          /\ sent.ns_on <= sent.save
          /\ sent.save <= sent.we_off + 1
          /\ sent.lookup <= sent.we_off + 1
          /\ sent.we_off <= sent.ns_on

C3_Witness ==
    /\ IsSequence
    /\ outcome = "complete"
    /\ op.count = 2
    /\ sent.save = 2
    /\ sent.we_off = 1

(* C4: in a sequence run, guiding is started only after multi-star mode was
   enabled, each of the two at most once; a capture is called only between the
   one start and the stop; the stop is issued once, as the last request of a
   completed run, after all exposure_count frames were saved. *)
C4_GuidingBracketsCaptures ==
    IsSequence =>
        /\ sent.enable <= 1 /\ sent.start <= 1 /\ sent.stop <= 1
        /\ sent.start = 1 => sent.enable = 1
        /\ (sent.lookup + Captures >= 1) => sent.start = 1
        /\ pc \in {"capture_image", "expose", "save"} => (sent.start = 1 /\ sent.stop = 0)
        /\ sent.stop = 1 =>
              /\ pc = "idle" /\ outcome = "complete"
              /\ sent.save = (IF op.count > 0 THEN op.count ELSE 0)
              /\ sent.fw = sent.save /\ sent.exp = sent.save
        /\ (pc = "idle" /\ outcome = "complete") =>
              (sent.enable = 1 /\ sent.start = 1 /\ sent.stop = 1)

C4_Witness ==
    /\ IsSequence
    /\ outcome = "complete"
    /\ sent.stop = 1
    /\ sent.save = 2
    /\ sent.start = 1

(* C5: when the resolver does not know the target, target and sequence issue no
   device request at all (no altitude read, prompt, slew, guide call, dither or
   capture), create no directory, and end as target-not-found with an error
   logged. *)
C5_NotFoundTouchesNothing ==
    (IsGated /\ op.target \notin {"M42", "M31"}) =>
        /\ sent.read = 0 /\ sent.prompt = 0
        /\ AfterGateRequests = 0
        /\ Ended => (outcome = "target_not_found" /\ log.target_not_found = 1
                       /\ ErrorsLogged >= 1)

C5_Witness ==
    /\ IsSequence
    /\ op.target = "Ghost"
    /\ outcome = "target_not_found"
    /\ log.target_not_found = 1

(* C6: once enabling multi-star mode or starting guiding has reported a status
   other than OK, the sequence issues no dither, filter-wheel, exposure or save
   command and ends as guide_failed. *)
C6_GuideFailureStopsRun ==
    (IsSequence /\ ~guideOK) =>
        /\ Dithers = 0
        /\ Captures = 0
        /\ Ended => outcome = "guide_failed"

(* decimal value of a digit string *)
RECURSIVE Value(_)
Value(d) == IF d = <<>> THEN 0 ELSE 10 * Value(SubSeq(d, 1, Len(d) - 1)) + d[Len(d)]

(* C7 as stated: the frame saved last in a sequence run, the k-th, carries k as
   a zero-padded number of exactly 4 digits, so the first is 0001 and each next
   index is one more; the file is named after the run's filter and lies in the
   run's directory. *)
C7_IndexHasFourDigits ==
    (IsSequence /\ sent.save >= 1) =>
        /\ Len(last.file.index) = 4
        /\ \A k \in 1..4 : last.file.index[k] \in 0..9
        /\ Value(last.file.index) = sent.save
        /\ sent.save = 1 => last.file.index = <<0, 0, 0, 1>>
        /\ last.file.filter = op.filter
        /\ ~Ended => last.file.dir = directory

(* C7 amended: the k-th frame carries k in decimal, padded with zeros to 4
   digits: exactly 4 digits up to k = 9999, and the digits of k without padding
   (5 or more) from k = 10000 on; the first is 0001 and each next index is one
   more; the file is named after the run's filter and lies in the run's
   directory. *)
C7_IndexHasAtLeastFourDigits ==
    (IsSequence /\ sent.save >= 1) =>
        /\ Len(last.file.index) = (IF sent.save <= 9999 THEN 4 ELSE 5)
        /\ \A k \in DOMAIN last.file.index : last.file.index[k] \in 0..9
        /\ sent.save >= 10000 => last.file.index[1] # 0
        /\ Value(last.file.index) = sent.save
        /\ sent.save = 1 => last.file.index = <<0, 0, 0, 1>>
        /\ last.file.filter = op.filter
        /\ last.file.ts \in last.file.dir.ts..clock
        /\ last.file.dir.base = op.base /\ last.file.dir.target = op.target
        /\ ~Ended => (last.file.dir = directory /\ sent.save = i)

C7_Witness ==
    /\ IsSequence
    /\ sent.save = 10000
    /\ last.file.index = <<1, 0, 0, 0, 0>>
    /\ last.file.dir = directory

(* C8: a sequence run that has started guiding has slewed the mount to the
   resolved coordinates before. *)
C8_SlewBeforeGuiding ==
    (IsSequence /\ sent.start >= 1) => sent.slew >= 1

(* C9: the directory a gate-passing sequence run creates did not exist before
   that run. *)
C9_DirectoryIsFresh ==
    (IsSequence /\ sent.mkdir >= 1) => ~dirExisted

(* C10 as stated: every sequence whose filter is not in the filter table ends
   in a lookup failure. *)
C10_UnknownFilterAlwaysFails ==
    (IsSequence /\ Ended /\ op.filter \notin {"L", "R", "G", "B", "H", "O"}) =>
        outcome = "lookup_failure"

(* C10 amended: a sequence whose filter is not in the filter table never issues
   a filter-wheel, exposure or save command (no position is substituted), and
   it ends in a lookup failure whenever it reaches its first capture, that is
   when the target resolves, the gate is passed and exposure_count >= 1. *)
C10_UnknownFilterNeverCaptures ==
    (IsSequence /\ op.filter \notin {"L", "R", "G", "B", "H", "O"}) =>
        /\ Captures = 0
        /\ last.slot = 0
        /\ (Ended /\ sent.mkdir = 1 /\ op.count >= 1) =>
              (pc = "crashed" /\ outcome = "lookup_failure" /\ sent.lookup = 1)
        /\ outcome = "lookup_failure" => (sent.mkdir = 1 /\ op.count >= 1)

C10_Witness ==
    /\ IsSequence
    /\ op.filter = "X"
    /\ pc = "crashed"
    /\ outcome = "lookup_failure"
    /\ sent.lookup = 1

(* only requests of the kinds S were issued, only records of the kinds S logged *)
OnlySent(S) == \A k \in SentKinds \ S : sent[k] = 0
OnlyLogged(S) == \A k \in LogKinds \ S : log[k] = 0
Known == {"set_light", "telescope_cover", "target", "sequence", "focus",
          "showimage", "roof"}
Switches == {"set_light", "telescope_cover", "roof"}

(* C11: a dispatched name outside the seven commands leaves one error record
   and nothing else (no request of any kind, no other record, the thread back
   at the caller); a known name runs its own operation and no other: the
   switch commands only write a switch, focus only pulses the focuser,
   showimage only starts the viewer, target only resolves, reads the location,
   prompts and slews, sequence never slews, switches, focuses or starts the
   viewer; none of them logs an unknown command. *)
C11_DispatchByName ==
    /\ (op.cmd # "" /\ op.cmd \notin Known) =>
          /\ pc = "idle" /\ outcome = "unknown_command"
          /\ log.unknown_command = 1 /\ OnlyLogged({"unknown_command"})
          /\ OnlySent({})
    /\ op.cmd \in Known => log.unknown_command = 0
    /\ op.cmd \in Switches =>
          (OnlySent({"switch"}) /\ (Ended => sent.switch = 1))
    /\ op.cmd = "focus" =>
          (OnlySent({"focus_on", "focus_off"}) /\ (Ended => sent.focus_off = 1))
    /\ op.cmd = "showimage" => (OnlySent({"shell"}) /\ (Ended => sent.shell = 1))
    /\ op.cmd = "target" =>
          (OnlySent({"query", "read", "prompt", "slew"}) /\ (Ended => sent.query = 1))
    /\ op.cmd = "sequence" =>
          /\ OnlySent(SentKinds \ {"slew", "switch", "focus_on", "focus_off", "shell"})
          /\ Ended => sent.query = 1

C11_Witness ==
    /\ op.cmd = "park"
    /\ outcome = "unknown_command"
    /\ log.unknown_command = 1
    /\ opsLeft < MaxOps

(* the right ascension (in degrees) and declination the resolver gives *)
Resolved(name) ==
    IF name = "M42" THEN [ra |-> 75, dec |-> -5] ELSE [ra |-> 0, dec |-> 41]
Declined == answer.asked /\ answer.text \notin {<<"y">>, <<"Y">>}

(* C12: a target command issues at most one slew, carrying the resolved right
   ascension and declination, and exactly one when the target resolves and the
   gate lets it through; arrival is logged after the slew command (never
   before, once when the command has returned); no guide call, dither,
   filter-wheel or camera command, directory or switch write is issued. *)
C12_TargetSlewsOnce ==
    op.cmd = "target" =>
        /\ OnlySent({"query", "read", "prompt", "slew"})
        /\ sent.slew <= 1
        /\ log.slewed <= sent.slew
        /\ pc = "slew_settled" => (sent.slew = 1 /\ log.slewed = 0)
        /\ sent.slew = 1 => last.slew = Resolved(op.target)
        /\ (Ended /\ op.target \in {"M42", "M31"} /\ ~Declined) =>
              (sent.slew = 1 /\ log.slewed = 1 /\ outcome = "slewed")
        /\ outcome = "slewed" => OnlyLogged({"slewed"})

C12_Witness ==
    /\ op.cmd = "target"
    /\ op.target = "M42"
    /\ outcome = "slewed"
    /\ sent.slew = 1
    /\ log.slewed = 1
    /\ last.slew = [ra |-> 75, dec |-> -5]

(* C13: a sequence run that has ended, ended in one of the four outcomes
   target-not-found, low-altitude abort, guide failure or Complete, a run
   whose guide calls reported a failure among the failed ones; the completion
   record is written only in a Complete run, after guide-stop and after all
   exposure_count frames were saved. *)
C13_OneOfFourOutcomes ==
    IsSequence =>
        /\ Ended => outcome \in {"target_not_found", "low_altitude", "guide_failed",
                                 "complete"}
        /\ (Ended /\ ~guideOK) => outcome = "guide_failed"
        /\ log.sequence_complete <= 1
        /\ log.sequence_complete = 1 =>
              /\ pc = "idle" /\ outcome = "complete" /\ guideOK
              /\ sent.stop = 1
              /\ sent.save = (IF op.count > 0 THEN op.count ELSE 0)
        /\ outcome \in {"target_not_found", "low_altitude", "guide_failed"} =>
              log.sequence_complete = 0

(* C16: a sequence run that has started guiding and has ended, in whatever
   way, has stopped guiding. *)
C16_StopFollowsStart ==
    (IsSequence /\ Ended /\ sent.start >= 1) => sent.stop >= 1

(* C14: in a sequence run each exposure is filter wheel, then exposure, then
   save, one of each: the three counts are equal between exposures and run
   ahead one command at a time in that order inside one; each dither is north-
   south on, west-east on, north-south off, west-east off; a dither starts
   only when as many frames are saved as dithers were started before, and the
   n-th filter-wheel command is issued only after n-1 complete dithers, with
   no dither in progress while an exposure is. *)
C14_OrderWithinExposure ==
    IsSequence =>
        /\ pc = "expose" => (sent.fw = sent.save + 1 /\ sent.exp = sent.save)
        /\ pc = "save" => (sent.fw = sent.save + 1 /\ sent.exp = sent.save + 1)
        /\ pc \notin {"expose", "save"} => (sent.fw = sent.save /\ sent.exp = sent.save)
        /\ pc = "dither_we_on" =>
              (sent.ns_on = sent.we_off + 1 /\ sent.we_on = sent.we_off
                 /\ sent.ns_off = sent.we_off)
        /\ pc = "dither_ns_off" =>
              (sent.ns_on = sent.we_off + 1 /\ sent.we_on = sent.we_off + 1
                 /\ sent.ns_off = sent.we_off)
        /\ pc = "dither_we_off" =>
              (sent.ns_on = sent.we_off + 1 /\ sent.we_on = sent.we_off + 1
                 /\ sent.ns_off = sent.we_off + 1)
        /\ pc \notin {"dither_we_on", "dither_ns_off", "dither_we_off"} =>
              (sent.ns_on = sent.we_off /\ sent.we_on = sent.we_off
                 /\ sent.ns_off = sent.we_off)
        /\ sent.ns_on <= sent.save
        /\ sent.fw >= 1 => sent.we_off >= sent.fw - 1
        /\ sent.we_off <= sent.save
        /\ pc \in {"dither_we_on", "dither_ns_off", "dither_we_off"} =>
              (sent.fw = sent.save /\ sent.ns_on = sent.save)

C14_Witness ==
    /\ IsSequence
    /\ pc = "save"
    /\ sent.fw = 2
    /\ sent.exp = 2
    /\ sent.save = 1
    /\ sent.we_off = 1

(* C15: a motion value is 1 only inside the function that set it, between its
   on and its off command: north-south and west-east motion only inside
   dither(), focuser motion only inside focus(); everywhere else, and whenever
   an operation has ended, all three are 0 and every on command of the
   operation was followed by its off command. *)
C15_MotionSwitchedOff ==
    /\ motion.ns \in {0, 1} /\ motion.we \in {0, 1} /\ motion.focus \in {0, 1}
    /\ motion.ns = 1 => pc \in {"dither_we_on", "dither_ns_off"}
    /\ motion.we = 1 => pc \in {"dither_ns_off", "dither_we_off"}
    /\ motion.focus = 1 => pc = "focus_off"
    /\ Ended => /\ sent.ns_on = sent.ns_off
                /\ sent.we_on = sent.we_off
                /\ sent.focus_on = sent.focus_off

C15_Witness ==
    /\ IsSequence
    /\ pc = "capture_image"
    /\ sent.ns_on = 1 /\ sent.we_on = 1
    /\ sent.ns_off = 1 /\ sent.we_off = 1
    /\ motion = [ns |-> 0, we |-> 0, focus |-> 0]

(* the filter table as the claims give it *)
Position(name) ==
    CASE name = "L" -> 1 [] name = "R" -> 2 [] name = "G" -> 3
      [] name = "B" -> 4 [] name = "H" -> 5 [] name = "O" -> 6 [] OTHER -> 0

(* every command of a capture carries the plan's value *)
C17_CarriesPlan ==
    IsSequence =>
        /\ sent.fw >= 1 => last.slot = Position(op.filter)
        /\ sent.exp >= 1 => last.exposure = op.etime
        /\ sent.save >= 1 => last.file.filter = op.filter
        /\ (sent.save >= 1 /\ ~Ended) => last.file.dir = directory
        /\ (sent.mkdir = 1 /\ ~Ended) =>
              (directory \in dirs /\ directory.base = op.base
                 /\ directory.target = op.target)

(* a step of a running operation leaves the plan alone, and a further capture
   command repeats the value of the one before *)
C17_PlanUnchanged ==
    (pc \notin {"idle", "crashed"}) =>
        /\ op' = op
        /\ (sent.mkdir = 1 /\ pc' # "idle") => directory' = directory
        /\ (sent.fw >= 1 /\ sent'.fw = sent.fw + 1) => last'.slot = last.slot
        /\ (sent.exp >= 1 /\ sent'.exp = sent.exp + 1) => last'.exposure = last.exposure
        /\ (sent.save >= 1 /\ sent'.save = sent.save + 1) =>
              (last'.file.dir = last.file.dir /\ last'.file.filter = last.file.filter)

(* C17: all frames of a sequence run are taken under one plan: every filter-
   wheel command carries the table position of the run's filter, every
   exposure command the run's duration, every save a path in the run's
   directory, the same as the capture before, and no step of the run changes
   the arguments or the directory. *)
C17_OnePlanPerRun == []C17_CarriesPlan /\ [][C17_PlanUnchanged]_vars

C17_Witness ==
    /\ IsSequence
    /\ op.filter = "G"
    /\ sent.save = 2
    /\ last.slot = 3
    /\ clock = 1
    /\ last.file.dir.ts = 0
    /\ last.file.ts = 1

(* C18: with exposure_count <= 0 a sequence run never dithers and never calls
   capture; when its target resolves and the gate lets it through it ends
   Complete with the directory created, multi-star mode enabled, guiding
   started and stopped once each and completion logged. *)
C18_EmptyRunCompletes ==
    (IsSequence /\ op.count <= 0) =>
        /\ Dithers = 0 /\ Captures = 0 /\ sent.lookup = 0
        /\ log.captured = 0
        /\ (Ended /\ op.target \in {"M42", "M31"} /\ ~Declined) =>
              /\ pc = "idle" /\ outcome = "complete"
              /\ sent.mkdir = 1 /\ sent.enable = 1 /\ sent.start = 1 /\ sent.stop = 1
              /\ log.sequence_complete = 1

C18_Witness ==
    /\ IsSequence
    /\ op.count = 0
    /\ outcome = "complete"
    /\ sent.mkdir = 1
    /\ sent.stop = 1
    /\ log.sequence_complete = 1

(* the device and property the claim gives each switch command *)
OwnSwitch(command) ==
    CASE command = "set_light" -> <<"Red Light", "LIGHT_STATE">>
      [] command = "telescope_cover" -> <<"Telescope Cover", "COVER_STATE">>
      [] command = "roof" -> <<"Observatory Roof", "ROOF_STATE">>

(* C19: set_light, telescope_cover and roof issue nothing but a switch write,
   and when they have returned exactly one, to their own device and property
   with the caller's value as given, with one record logged and no other. *)
C19_OneSwitchWrite ==
    op.cmd \in Switches =>
        /\ OnlySent({"switch"})
        /\ sent.switch <= 1
        /\ motion = [ns |-> 0, we |-> 0, focus |-> 0]
        /\ Ended =>
              /\ outcome = "set"
              /\ sent.switch = 1
              /\ last.switch = OwnSwitch(op.cmd) \o <<op.state>>
              /\ log.set = 1 /\ OnlyLogged({"set"})

C19_Witness ==
    /\ op.cmd = "roof"
    /\ op.state = "on"
    /\ outcome = "set"
    /\ sent.switch = 1
    /\ last.switch = <<"Observatory Roof", "ROOF_STATE", "on">>

====
